---- MODULE Spec2Model ----
(***************************************************************************)
(* QuantSPR.ipynb as a state machine.                                      *)
(*                                                                         *)
(* The state is the notebook kernel's global namespace, the two CSV files, *)
(* the position of the running cell and the locals of the function it is   *)
(* in.  Floating-point numbers are fixed-point integers in units of 1/1000 *)
(* (1.45 is 1450, 54 degrees is 54000); a division rounds down, which is   *)
(* the model's rounding.  A complex refractive index is a pair <<re, im>>. *)
(* Python list index i is sequence index i + 1.                            *)
(***************************************************************************)
EXTENDS Integers, Sequences, FiniteSets, Bags, TLC

VARIABLES
    cfg,              \* the literals typed into the cells for this session
    tmm,              \* which reflectance function the tmm library computes
    pc,               \* position of the kernel: "idle" or a point of the run cell
    err,              \* exception that ended the last cell execution, or "none"
    runs,             \* number of executions of the run cell so far
    n_aqueous,
    theta_list_ibbr, d_list_ibbr, n_list_ibbr,
    theta_list_cmu, d_list_cmu, n_list_cmu,
    x_ibbr, x_ibbr_min, x_ibbr_max, x_ibbr_num, ibbr_csv,
    x_cmu, x_cmu_min, x_cmu_max, x_cmu_num, cmu_csv,
    it,               \* the array the running for statement iterates, and its position
    Rp,               \* the local list Rp (Rp2 in sample_CMU)
    plots,            \* the curves drawn by plot_IBBR / plot_CMU in this execution
    stdout,           \* what the running cell has printed
    calls,            \* log of the coh_tmm calls of this execution of the run cell
    start,            \* the layer lists as the run cell found them when it last started
    completed,        \* the rows written by each sample_IBBR / sample_CMU call that returned
    units             \* the loop bodies of sample_IBBR when they run side by side

vars == <<cfg, tmm, pc, err, runs, n_aqueous,
          theta_list_ibbr, d_list_ibbr, n_list_ibbr,
          theta_list_cmu, d_list_cmu, n_list_cmu,
          x_ibbr, x_ibbr_min, x_ibbr_max, x_ibbr_num, ibbr_csv,
          x_cmu, x_cmu_min, x_cmu_max, x_cmu_num, cmu_csv,
          it, Rp, plots, stdout, calls, start, completed, units>>

-----------------------------------------------------------------------------
(* Bounds of the model *)

\* largest sample count typed into x_ibbr_num / x_cmu_num
MaxNum == 3
\* largest number of angles in a grid
MaxAngles == 3
\* largest number of executions of the run cell in one session
MaxRuns == 2

-----------------------------------------------------------------------------
(* Constants of the notebook, in fixed point *)

\* pi/180 = 0.01745..
DEGREE == 17
\* numpy.inf, larger than every finite number of the model
inf == 999999999
lam_vac_ibbr == 633000
lam_vac_cmu == 763800

\* fixed-point product and quotient of two fixed-point numbers
FMul(a, b) == (a * b) \div 1000
FDiv(a, b) == (a * 1000) \div b

-----------------------------------------------------------------------------
(* Library functions the notebook imports *)

\* linspace that leaves the end point out (endpoint=False): one sample short
linspace_short(start_, stop_, num) ==
    LET delta == stop_ - start_
    IN  [j \in 1..(num - 1) |-> start_ + ((j - 1) * delta) \div num]

\* linspace that stores the end point into the last element whatever num is
linspace_endpoint(start_, stop_, num) ==
    LET div   == num - 1
        delta == stop_ - start_
        step  == IF div > 0 THEN delta \div div ELSE 0
    IN  [j \in 1..num |-> IF j = num THEN stop_ ELSE (j - 1) * step + start_]

\* numpy.linspace(start, stop, num) with endpoint=True, for num >= 0
\* (a negative num raises ValueError, which the callers test before).
linspace(start_, stop_, num) ==
    LET div   == num - 1
        delta == stop_ - start_
        step  == IF div > 0 THEN delta \div div ELSE 0
        y(i)  == IF div > 0
                   THEN IF step = 0 THEN (i * delta) \div div ELSE i * step
                   ELSE i * delta
    IN  [j \in 1..num |->
            IF num > 1 /\ j = num THEN stop_ ELSE y(j - 1) + start_]

\* the builtin min of a non-empty list
min(list) ==
    CHOOSE m \in {list[i] : i \in DOMAIN list} :
        \A i \in DOMAIN list : m <= list[i]

\* the index of the last occurrence instead of the first
index_last(list, value) ==
    (CHOOSE i \in DOMAIN list :
        list[i] = value /\ \A j \in (i + 1)..Len(list) : list[j] # value) - 1

\* list.index(value): the Python index of the first occurrence
index(list, value) ==
    (CHOOSE i \in DOMAIN list :
        list[i] = value /\ \A j \in 1..(i - 1) : list[j] # value) - 1

\* The sum of the real and imaginary parts of the entries of n_list: the
\* cardinality of the bag holding index i that many times.
nsum(n_list) ==
    BagCardinality([i \in DOMAIN n_list |-> n_list[i][1] + n_list[i][2]])

\* the sum of the finite entries of d_list
dsum(d_list) ==
    BagCardinality([i \in {k \in DOMAIN d_list : d_list[k] # inf} |-> d_list[i]])

\* The reflectance functions the model lets tmm compute: each a fixed function
\* of the five arguments of coh_tmm.  "A" and "B" return for every stack whose
\* two lists have one size; "C" also rejects some arguments with a ValueError.
TmmModels == {"A", "B", "C"}

\* tmm.tmm_core.coh_tmm(pol, n_list, d_list, th_0, lam_vac): raises ValueError
\* when n_list and d_list differ in size or the function rejects the
\* arguments, else returns the reflectance 'R'.
coh_tmm(pol, n_list, d_list, th_0, lam_vac) ==
    LET key == nsum(n_list) + dsum(d_list) + th_0 + (lam_vac \div 1000)
               + (IF pol = "p" THEN 0 ELSE 1)
    IN  [raises |-> \/ Len(n_list) # Len(d_list)
                    \/ tmm = "C" /\ key % 21 = 0,
         R      |-> IF tmm = "B" THEN (key % 4) \div 2 ELSE key % 3]

-----------------------------------------------------------------------------
(* The literals of the cells, as typed for one session *)

\* x_ibbr_min, x_ibbr_max (lines 256-257)
SweepRanges == { <<1450, 1453>>, <<1450, 1450>>, <<1453, 1450>> }

\* x_ibbr_num, x_cmu_num (lines 258, 266)
SweepNums == {-1, 0, 1, MaxNum}

\* the windows of theta_list_ibbr (lines 86, 270), in degrees
GridsIBBR == { [lo |-> 54000, hi |-> 56000, num |-> MaxAngles],
               [lo |-> 60000, hi |-> 90000, num |-> 2],
               [lo |-> 56000, hi |-> 54000, num |-> 2] }

\* the windows of theta_list_cmu (lines 93, 271), in degrees
GridsCMU == { [lo |-> 66000, hi |-> 68000, num |-> MaxAngles],
              [lo |-> 60000, hi |-> 90000, num |-> 2] }

\* which of the two layer lists of cell 2 has lost an entry, if any
Stacks == {"ok", "n_ibbr_short", "n_cmu_short"}

\* The sessions: the count and the grid typed for CMU vary freely against the
\* full count and the full grid of IBBR, and go together with the other
\* counts and grids of IBBR.
Configs ==
    {c \in [range : SweepRanges, num_ibbr : SweepNums, num_cmu : SweepNums,
            grid_ibbr : GridsIBBR, grid_cmu : GridsCMU, stack : Stacks] :
        /\ c.num_cmu = c.num_ibbr \/ c.num_ibbr = MaxNum
        /\ c.grid_cmu.num = c.grid_ibbr.num \/ c.grid_ibbr.lo = 54000}

\* line 87
d_list_ibbr_literal == <<inf, 5000, 45000, 600, 2500, 2500, inf>>

\* line 88
n_list_ibbr_literal(c, n_aq) ==
    IF c.stack = "n_ibbr_short"
    THEN <<<<1770, 0>>, <<3089, 3341>>, <<140, 3702>>, <<n_aq, 0>>,
           <<1450, 0>>, <<n_aq, 0>>>>
    ELSE <<<<1770, 0>>, <<3089, 3341>>, <<140, 3702>>, <<n_aq, 0>>,
           <<1450, 0>>, <<1450, 0>>, <<n_aq, 0>>>>

\* line 94
d_list_cmu_literal == <<inf, 5000, 45000, 600, 2500, 2500, inf>>

\* line 95
n_list_cmu_literal(c, n_aq) ==
    IF c.stack = "n_cmu_short"
    THEN <<<<1520, 0>>, <<3095, 3428>>, <<172, 4736>>, <<n_aq, 0>>,
           <<1450, 0>>, <<n_aq, 0>>>>
    ELSE <<<<1520, 0>>, <<3095, 3428>>, <<172, 4736>>, <<n_aq, 0>>,
           <<1450, 0>>, <<1450, 0>>, <<n_aq, 0>>>>

\* linspace(lo*DEGREE, hi*DEGREE, num=..) of lines 86, 93, 270, 271
theta_list(g) == linspace(FMul(g.lo, DEGREE), FMul(g.hi, DEGREE), g.num)

NoFile == [exists |-> FALSE, rows |-> <<>>]
NoIter == [arr |-> <<>>, i |-> 0]

-----------------------------------------------------------------------------
(* Cells 1-4 have run, in order: the parameters are bound and the functions *)
(* defined; the names the run cell binds are not bound yet, and nothing     *)
(* reads them before the run cell has bound them.                           *)
Init ==
    /\ cfg \in Configs
    /\ tmm \in TmmModels
    /\ pc = "idle"
    /\ err = "none"
    /\ runs = 0
    /\ n_aqueous = 1335
    /\ theta_list_ibbr = theta_list([lo |-> 60000, hi |-> 90000, num |-> 2])
    /\ d_list_ibbr = d_list_ibbr_literal
    /\ n_list_ibbr = n_list_ibbr_literal(cfg, 1335)
    /\ theta_list_cmu = theta_list([lo |-> 60000, hi |-> 90000, num |-> 2])
    /\ d_list_cmu = d_list_cmu_literal
    /\ n_list_cmu = n_list_cmu_literal(cfg, 1335)
    /\ x_ibbr = 0 /\ x_ibbr_min = 0 /\ x_ibbr_max = 0 /\ x_ibbr_num = 0
    /\ x_cmu = 0 /\ x_cmu_min = 0 /\ x_cmu_max = 0 /\ x_cmu_num = 0
    /\ ibbr_csv = NoFile
    /\ cmu_csv = NoFile
    /\ it = NoIter
    /\ Rp = <<>>
    /\ plots = <<>>
    /\ stdout = <<>>
    /\ calls = <<>>
    /\ start = [ibbr |-> n_list_ibbr_literal(cfg, 1335),
                cmu |-> n_list_cmu_literal(cfg, 1335)]
    /\ completed = [ibbr |-> <<>>, cmu |-> <<>>]
    /\ units = <<>>

-----------------------------------------------------------------------------
(* Steps shared by the statements of the run cell *)

\* an exception caught and dropped inside the loop over the sweep: the sample
\* is given up and the loop goes on to the next one
Raise_swallowed(e) ==
    /\ pc' = (IF pc = "scan_IBBR" THEN "for_IBBR"
              ELSE IF pc = "scan_CMU" THEN "for_CMU" ELSE "idle")
    /\ err' = (IF pc \in {"scan_IBBR", "scan_CMU"} THEN err ELSE e)
    /\ it' = (IF pc \in {"scan_IBBR", "scan_CMU"} THEN it ELSE NoIter)
    /\ Rp' = <<>>

\* an exception leaves the cell: the frames and their locals are gone
Raise(e) ==
    /\ pc' = "idle"
    /\ err' = e
    /\ it' = NoIter
    /\ Rp' = <<>>

\* the log entry of one coh_tmm call
Call(fn, pol, n_list, d_list, th_0, lam_vac) ==
    [fn |-> fn, pol |-> pol, n_list |-> n_list, d_list |-> d_list,
     th_0 |-> th_0, lam_vac |-> lam_vac]

\* "for theta in theta_list: R.append(coh_tmm('p', n_list, d_list, theta,
\* lam_vac)['R'])": the calls made, up to and including the first that raises
RECURSIVE curve_calls(_, _, _, _, _)
curve_calls(fn, n_list, d_list, thetas, lam_vac) ==
    IF thetas = <<>> THEN <<>>
    ELSE <<Call(fn, "p", n_list, d_list, Head(thetas), lam_vac)>>
         \o (IF coh_tmm("p", n_list, d_list, Head(thetas), lam_vac).raises
             THEN <<>>
             ELSE curve_calls(fn, n_list, d_list, Tail(thetas), lam_vac))

curve_raises(n_list, d_list, thetas, lam_vac) ==
    \E i \in DOMAIN thetas : coh_tmm("p", n_list, d_list, thetas[i], lam_vac).raises

curve(n_list, d_list, thetas, lam_vac) ==
    [i \in DOMAIN thetas |-> coh_tmm("p", n_list, d_list, thetas[i], lam_vac).R]

\* the value stored one layer too low
substitute_below(n_list, x, v) == [n_list EXCEPT ![x] = <<v, 0>>]

\* the value added to what the list holds instead of stored
substitute_added(n_list, x, v) ==
    [n_list EXCEPT ![x + 1] = <<@[1] + (v - x_ibbr_min), 0>>]

\* "for n_list[x] in ...": the loop target is an element of the global list
substitute(n_list, x, v) == [n_list EXCEPT ![x + 1] = <<v, 0>>]

\* theta_list[rpindex] / DEGREE
tindex(thetas, rpindex) == FDiv(thetas[rpindex + 1], DEGREE)

\* the row [n_list[x], tindex] handed to writerow
row(n_list, x, t) == <<n_list[x + 1][1], t>>

\* the file opened again in mode "w" for the row: what it held is lost
writerow_reopened(file, r) == [file EXCEPT !.rows = <<r>>]

\* the row put in front of the rows written so far
writerow_front(file, r) == [file EXCEPT !.rows = <<r>> \o @]

writerow(file, r) == [file EXCEPT !.rows = Append(@, r)]

-----------------------------------------------------------------------------
(* Cell 2: the parameters (lines 72-95) *)
ParamsCell ==
    /\ pc = "idle"
    /\ n_aqueous' = 1335
    /\ theta_list_ibbr' = theta_list([lo |-> 60000, hi |-> 90000, num |-> 2])
    /\ d_list_ibbr' = d_list_ibbr_literal
    /\ n_list_ibbr' = n_list_ibbr_literal(cfg, 1335)
    /\ theta_list_cmu' = theta_list([lo |-> 60000, hi |-> 90000, num |-> 2])
    /\ d_list_cmu' = d_list_cmu_literal
    /\ n_list_cmu' = n_list_cmu_literal(cfg, 1335)
    /\ UNCHANGED <<cfg, tmm, units, pc, err, stdout, runs, start, x_ibbr, x_ibbr_min, x_ibbr_max, x_ibbr_num,
                   ibbr_csv, x_cmu, x_cmu_min, x_cmu_max, x_cmu_num, cmu_csv,
                   it, Rp, plots, calls, completed>>

(* The run cell, lines 250-271: the assignments before the four calls *)
RunCell ==
    /\ pc = "idle"
    /\ runs < MaxRuns
    /\ runs' = runs + 1
    /\ n_aqueous' = 1330
    /\ x_ibbr' = 5
    /\ x_ibbr_min' = cfg.range[1]
    /\ x_ibbr_max' = cfg.range[2]
    /\ x_ibbr_num' = cfg.num_ibbr
    /\ ibbr_csv' = [exists |-> TRUE, rows |-> <<>>]
    /\ x_cmu' = 5
    /\ x_cmu_min' = x_ibbr_min'
    /\ x_cmu_max' = x_ibbr_max'
    /\ x_cmu_num' = cfg.num_cmu
    /\ cmu_csv' = [exists |-> TRUE, rows |-> <<>>]
    /\ theta_list_ibbr' = theta_list(cfg.grid_ibbr)
    /\ theta_list_cmu' = theta_list(cfg.grid_cmu)
    /\ pc' = "plot_IBBR"
    /\ err' = "none"
    /\ stdout' = <<>>
    /\ plots' = <<>>
    /\ calls' = <<>>
    /\ start' = [ibbr |-> n_list_ibbr, cmu |-> n_list_cmu]
    /\ UNCHANGED <<cfg, tmm, units, d_list_ibbr, n_list_ibbr, d_list_cmu, n_list_cmu,
                   it, Rp, completed>>

\* KeyboardInterrupt: the kernel is interrupted while the run cell executes
Interrupt ==
    /\ pc # "idle"
    /\ Raise("KeyboardInterrupt")
    /\ UNCHANGED <<cfg, tmm, units, runs, n_aqueous,
                   theta_list_ibbr, d_list_ibbr, n_list_ibbr,
                   theta_list_cmu, d_list_cmu, n_list_cmu,
                   x_ibbr, x_ibbr_min, x_ibbr_max, x_ibbr_num, ibbr_csv,
                   x_cmu, x_cmu_min, x_cmu_max, x_cmu_num, cmu_csv,
                   plots, stdout, calls, start, completed>>

-----------------------------------------------------------------------------
(* IBBR *)

\* plot_IBBR(), lines 108-129
plot_IBBR ==
    /\ pc = "plot_IBBR"
    /\ LET n_list_min_ibbr == <<<<1770, 0>>, <<3089, 3341>>, <<140, 3702>>,
                                <<n_aqueous, 0>>, <<1450, 0>>, <<x_ibbr_min, 0>>,
                                <<n_aqueous, 0>>>>
           n_list_max_ibbr == <<<<1770, 0>>, <<3089, 3341>>, <<140, 3702>>,
                                <<n_aqueous, 0>>, <<1450, 0>>, <<x_ibbr_max, 0>>,
                                <<n_aqueous, 0>>>>
           min_failed == curve_raises(n_list_min_ibbr, d_list_ibbr,
                                      theta_list_ibbr, lam_vac_ibbr)
           max_failed == curve_raises(n_list_max_ibbr, d_list_ibbr,
                                      theta_list_ibbr, lam_vac_ibbr)
       IN  IF min_failed \/ max_failed
           THEN /\ Raise("ValueError")
                /\ calls' = calls
                       \o curve_calls("plot_IBBR", n_list_min_ibbr, d_list_ibbr,
                                      theta_list_ibbr, lam_vac_ibbr)
                       \o (IF min_failed THEN <<>>
                           ELSE curve_calls("plot_IBBR", n_list_max_ibbr,
                                    d_list_ibbr, theta_list_ibbr, lam_vac_ibbr))
                /\ plots' = plots
           ELSE /\ pc' = "sample_IBBR"
                /\ calls' = calls
                       \o curve_calls("plot_IBBR", n_list_min_ibbr, d_list_ibbr,
                                      theta_list_ibbr, lam_vac_ibbr)
                       \o curve_calls("plot_IBBR", n_list_max_ibbr, d_list_ibbr,
                                      theta_list_ibbr, lam_vac_ibbr)
                /\ plots' = Append(plots,
                       [fn |-> "plot_IBBR",
                        n_list_min |-> n_list_min_ibbr,
                        n_list_max |-> n_list_max_ibbr,
                        Rpmin |-> curve(n_list_min_ibbr, d_list_ibbr,
                                        theta_list_ibbr, lam_vac_ibbr),
                        Rpmax |-> curve(n_list_max_ibbr, d_list_ibbr,
                                        theta_list_ibbr, lam_vac_ibbr)])
                /\ UNCHANGED <<err, it, Rp>>
    /\ UNCHANGED <<cfg, tmm, units, runs, n_aqueous,
                   theta_list_ibbr, d_list_ibbr, n_list_ibbr,
                   theta_list_cmu, d_list_cmu, n_list_cmu,
                   x_ibbr, x_ibbr_min, x_ibbr_max, x_ibbr_num, ibbr_csv,
                   x_cmu, x_cmu_min, x_cmu_max, x_cmu_num, cmu_csv,
                   stdout, start, completed>>

\* sample_IBBR(), line 133: the call, and linspace evaluated once
sample_IBBR_call ==
    /\ pc = "sample_IBBR"
    /\ IF x_ibbr_num < 0
       THEN Raise("ValueError")
       ELSE /\ it' = [arr |-> linspace(x_ibbr_min, x_ibbr_max, x_ibbr_num), i |-> 0]
            /\ pc' = "for_IBBR"
            /\ UNCHANGED <<err, Rp>>
    /\ UNCHANGED <<cfg, tmm, units, runs, n_aqueous,
                   theta_list_ibbr, d_list_ibbr, n_list_ibbr,
                   theta_list_cmu, d_list_cmu, n_list_cmu,
                   x_ibbr, x_ibbr_min, x_ibbr_max, x_ibbr_num, ibbr_csv,
                   x_cmu, x_cmu_min, x_cmu_max, x_cmu_num, cmu_csv,
                   plots, stdout, calls, start, completed>>

\* lines 133-134: the next value is stored into n_list_ibbr[x_ibbr], Rp = []
sample_IBBR_for ==
    /\ pc = "for_IBBR"
    /\ it.i < Len(it.arr)
    /\ IF x_ibbr + 1 \in DOMAIN n_list_ibbr
       THEN /\ n_list_ibbr' = substitute(n_list_ibbr, x_ibbr, it.arr[it.i + 1])
            /\ it' = [it EXCEPT !.i = @ + 1]
            /\ Rp' = <<>>
            /\ pc' = "scan_IBBR"
            /\ err' = err
       ELSE /\ Raise("IndexError")
            /\ n_list_ibbr' = n_list_ibbr
    /\ UNCHANGED <<cfg, tmm, units, runs, n_aqueous,
                   theta_list_ibbr, d_list_ibbr,
                   theta_list_cmu, d_list_cmu, n_list_cmu,
                   x_ibbr, x_ibbr_min, x_ibbr_max, x_ibbr_num, ibbr_csv,
                   x_cmu, x_cmu_min, x_cmu_max, x_cmu_num, cmu_csv,
                   plots, stdout, calls, start, completed>>

\* sample_IBBR returning once one sample is done, the others not evaluated
sample_IBBR_return_early ==
    /\ pc = "for_IBBR"
    /\ it.i >= 1 \/ it.i >= Len(it.arr)
    /\ pc' = "plot_CMU"
    /\ it' = NoIter
    /\ Rp' = <<>>
    /\ completed' = [completed EXCEPT !.ibbr = Append(@, ibbr_csv.rows)]
    /\ UNCHANGED <<cfg, tmm, units, err, runs, n_aqueous,
                   theta_list_ibbr, d_list_ibbr, n_list_ibbr,
                   theta_list_cmu, d_list_cmu, n_list_cmu,
                   x_ibbr, x_ibbr_min, x_ibbr_max, x_ibbr_num, ibbr_csv,
                   x_cmu, x_cmu_min, x_cmu_max, x_cmu_num, cmu_csv,
                   plots, stdout, calls, start>>

\* line 133, the array is exhausted: sample_IBBR returns
sample_IBBR_return ==
    /\ pc = "for_IBBR"
    /\ it.i >= Len(it.arr)
    /\ pc' = "plot_CMU"
    /\ it' = NoIter
    /\ Rp' = <<>>
    /\ completed' = [completed EXCEPT !.ibbr = Append(@, ibbr_csv.rows)]
    /\ UNCHANGED <<cfg, tmm, units, err, runs, n_aqueous,
                   theta_list_ibbr, d_list_ibbr, n_list_ibbr,
                   theta_list_cmu, d_list_cmu, n_list_cmu,
                   x_ibbr, x_ibbr_min, x_ibbr_max, x_ibbr_num, ibbr_csv,
                   x_cmu, x_cmu_min, x_cmu_max, x_cmu_num, cmu_csv,
                   plots, stdout, calls, start>>

\* lines 135-136: one turn of the loop over theta_list_ibbr
sample_IBBR_scan ==
    /\ pc = "scan_IBBR"
    /\ Len(Rp) < Len(theta_list_ibbr)
    /\ LET theta == theta_list_ibbr[Len(Rp) + 1]
           res   == coh_tmm("p", n_list_ibbr, d_list_ibbr, theta, lam_vac_ibbr)
       IN  /\ calls' = Append(calls, Call("sample_IBBR", "p", n_list_ibbr,
                                          d_list_ibbr, theta, lam_vac_ibbr))
           /\ IF res.raises
              THEN Raise("ValueError")
              ELSE /\ Rp' = Append(Rp, res.R)
                   /\ UNCHANGED <<pc, err, it>>
    /\ UNCHANGED <<cfg, tmm, units, runs, n_aqueous,
                   theta_list_ibbr, d_list_ibbr, n_list_ibbr,
                   theta_list_cmu, d_list_cmu, n_list_cmu,
                   x_ibbr, x_ibbr_min, x_ibbr_max, x_ibbr_num, ibbr_csv,
                   x_cmu, x_cmu_min, x_cmu_max, x_cmu_num, cmu_csv,
                   plots, stdout, start, completed>>

\* lines 137-142: the minimum, its first index, the row and the two prints
sample_IBBR_emit ==
    /\ pc = "scan_IBBR"
    /\ Len(Rp) >= Len(theta_list_ibbr)
    /\ IF Rp = <<>>
       THEN /\ Raise("ValueError")
            /\ UNCHANGED <<ibbr_csv, stdout>>
       ELSE LET mini    == min(Rp)
                rpindex == index(Rp, mini)
                t       == tindex(theta_list_ibbr, rpindex)
            IN  /\ ibbr_csv' = writerow(ibbr_csv, row(n_list_ibbr, x_ibbr, t))
                /\ stdout' = stdout \o <<n_list_ibbr[x_ibbr + 1][1], t>>
                /\ pc' = "for_IBBR"
                /\ UNCHANGED <<err, it, Rp>>
    /\ UNCHANGED <<cfg, tmm, units, runs, n_aqueous,
                   theta_list_ibbr, d_list_ibbr, n_list_ibbr,
                   theta_list_cmu, d_list_cmu, n_list_cmu,
                   x_ibbr, x_ibbr_min, x_ibbr_max, x_ibbr_num,
                   x_cmu, x_cmu_min, x_cmu_max, x_cmu_num, cmu_csv,
                   plots, calls, start, completed>>
-----------------------------------------------------------------------------
(* CMU *)

\* plot_CMU(), lines 153-174
plot_CMU ==
    /\ pc = "plot_CMU"
    /\ LET n_list_min_cmu == <<<<1520, 0>>, <<3095, 3428>>, <<172, 4736>>,
                                <<n_aqueous, 0>>, <<1450, 0>>, <<x_cmu_min, 0>>,
                                <<n_aqueous, 0>>>>
           n_list_max_cmu == <<<<1520, 0>>, <<3095, 3428>>, <<172, 4736>>,
                                <<n_aqueous, 0>>, <<1450, 0>>, <<x_cmu_max, 0>>,
                                <<n_aqueous, 0>>>>
           min_failed == curve_raises(n_list_min_cmu, d_list_cmu,
                                      theta_list_cmu, lam_vac_cmu)
           max_failed == curve_raises(n_list_max_cmu, d_list_cmu,
                                      theta_list_cmu, lam_vac_cmu)
       IN  IF min_failed \/ max_failed
           THEN /\ Raise("ValueError")
                /\ calls' = calls
                       \o curve_calls("plot_CMU", n_list_min_cmu, d_list_cmu,
                                      theta_list_cmu, lam_vac_cmu)
                       \o (IF min_failed THEN <<>>
                           ELSE curve_calls("plot_CMU", n_list_max_cmu,
                                    d_list_cmu, theta_list_cmu, lam_vac_cmu))
                /\ plots' = plots
           ELSE /\ pc' = "sample_CMU"
                /\ calls' = calls
                       \o curve_calls("plot_CMU", n_list_min_cmu, d_list_cmu,
                                      theta_list_cmu, lam_vac_cmu)
                       \o curve_calls("plot_CMU", n_list_max_cmu, d_list_cmu,
                                      theta_list_cmu, lam_vac_cmu)
                /\ plots' = Append(plots,
                       [fn |-> "plot_CMU",
                        n_list_min |-> n_list_min_cmu,
                        n_list_max |-> n_list_max_cmu,
                        Rpmin |-> curve(n_list_min_cmu, d_list_cmu,
                                        theta_list_cmu, lam_vac_cmu),
                        Rpmax |-> curve(n_list_max_cmu, d_list_cmu,
                                        theta_list_cmu, lam_vac_cmu)])
                /\ UNCHANGED <<err, it, Rp>>
    /\ UNCHANGED <<cfg, tmm, units, runs, n_aqueous,
                   theta_list_cmu, d_list_cmu, n_list_cmu,
                   theta_list_ibbr, d_list_ibbr, n_list_ibbr,
                   x_cmu, x_cmu_min, x_cmu_max, x_cmu_num, cmu_csv,
                   x_ibbr, x_ibbr_min, x_ibbr_max, x_ibbr_num, ibbr_csv,
                   stdout, start, completed>>

\* sample_CMU(), line 179: the call, and linspace evaluated once
sample_CMU_call ==
    /\ pc = "sample_CMU"
    /\ IF x_cmu_num < 0
       THEN Raise("ValueError")
       ELSE /\ it' = [arr |-> linspace(x_cmu_min, x_cmu_max, x_cmu_num), i |-> 0]
            /\ pc' = "for_CMU"
            /\ UNCHANGED <<err, Rp>>
    /\ UNCHANGED <<cfg, tmm, units, runs, n_aqueous,
                   theta_list_cmu, d_list_cmu, n_list_cmu,
                   theta_list_ibbr, d_list_ibbr, n_list_ibbr,
                   x_cmu, x_cmu_min, x_cmu_max, x_cmu_num, cmu_csv,
                   x_ibbr, x_ibbr_min, x_ibbr_max, x_ibbr_num, ibbr_csv,
                   plots, stdout, calls, start, completed>>

\* sample_CMU storing the next value into the list of the other instrument
sample_CMU_for_crossed ==
    /\ pc = "for_CMU"
    /\ it.i < Len(it.arr)
    /\ n_list_ibbr' = substitute(n_list_ibbr, x_ibbr, it.arr[it.i + 1])
    /\ it' = [it EXCEPT !.i = @ + 1]
    /\ Rp' = <<>>
    /\ pc' = "scan_CMU"
    /\ UNCHANGED <<cfg, tmm, units, err, runs, n_aqueous,
                   theta_list_cmu, d_list_cmu, n_list_cmu,
                   theta_list_ibbr, d_list_ibbr,
                   x_cmu, x_cmu_min, x_cmu_max, x_cmu_num, cmu_csv,
                   x_ibbr, x_ibbr_min, x_ibbr_max, x_ibbr_num, ibbr_csv,
                   plots, stdout, calls, start, completed>>

\* lines 179-180: the next value is stored into n_list_cmu[x_cmu], Rp2 = []
sample_CMU_for ==
    /\ pc = "for_CMU"
    /\ it.i < Len(it.arr)
    /\ IF x_cmu + 1 \in DOMAIN n_list_cmu
       THEN /\ n_list_cmu' = substitute(n_list_cmu, x_cmu, it.arr[it.i + 1])
            /\ it' = [it EXCEPT !.i = @ + 1]
            /\ Rp' = <<>>
            /\ pc' = "scan_CMU"
            /\ err' = err
       ELSE /\ Raise("IndexError")
            /\ n_list_cmu' = n_list_cmu
    /\ UNCHANGED <<cfg, tmm, units, runs, n_aqueous,
                   theta_list_cmu, d_list_cmu,
                   theta_list_ibbr, d_list_ibbr, n_list_ibbr,
                   x_cmu, x_cmu_min, x_cmu_max, x_cmu_num, cmu_csv,
                   x_ibbr, x_ibbr_min, x_ibbr_max, x_ibbr_num, ibbr_csv,
                   plots, stdout, calls, start, completed>>

\* line 179, the array is exhausted: sample_CMU returns, and the cell ends
sample_CMU_return ==
    /\ pc = "for_CMU"
    /\ it.i >= Len(it.arr)
    /\ pc' = "idle"
    /\ it' = NoIter
    /\ Rp' = <<>>
    /\ completed' = [completed EXCEPT !.cmu = Append(@, cmu_csv.rows)]
    /\ UNCHANGED <<cfg, tmm, units, err, runs, n_aqueous,
                   theta_list_cmu, d_list_cmu, n_list_cmu,
                   theta_list_ibbr, d_list_ibbr, n_list_ibbr,
                   x_cmu, x_cmu_min, x_cmu_max, x_cmu_num, cmu_csv,
                   x_ibbr, x_ibbr_min, x_ibbr_max, x_ibbr_num, ibbr_csv,
                   plots, stdout, calls, start>>

\* lines 181-182: one turn of the loop over theta_list_cmu
sample_CMU_scan ==
    /\ pc = "scan_CMU"
    /\ Len(Rp) < Len(theta_list_cmu)
    /\ LET theta == theta_list_cmu[Len(Rp) + 1]
           res   == coh_tmm("p", n_list_cmu, d_list_cmu, theta, lam_vac_cmu)
       IN  /\ calls' = Append(calls, Call("sample_CMU", "p", n_list_cmu,
                                          d_list_cmu, theta, lam_vac_cmu))
           /\ IF res.raises
              THEN Raise("ValueError")
              ELSE /\ Rp' = Append(Rp, res.R)
                   /\ UNCHANGED <<pc, err, it>>
    /\ UNCHANGED <<cfg, tmm, units, runs, n_aqueous,
                   theta_list_cmu, d_list_cmu, n_list_cmu,
                   theta_list_ibbr, d_list_ibbr, n_list_ibbr,
                   x_cmu, x_cmu_min, x_cmu_max, x_cmu_num, cmu_csv,
                   x_ibbr, x_ibbr_min, x_ibbr_max, x_ibbr_num, ibbr_csv,
                   plots, stdout, start, completed>>

\* lines 183-188: the minimum, its first index, the row and the two prints
sample_CMU_emit ==
    /\ pc = "scan_CMU"
    /\ Len(Rp) >= Len(theta_list_cmu)
    /\ IF Rp = <<>>
       THEN /\ Raise("ValueError")
            /\ UNCHANGED <<cmu_csv, stdout>>
       ELSE LET mini    == min(Rp)
                rpindex == index(Rp, mini)
                t       == tindex(theta_list_cmu, rpindex)
            IN  /\ cmu_csv' = writerow(cmu_csv, row(n_list_cmu, x_cmu, t))
                /\ stdout' = stdout \o <<n_list_cmu[x_cmu + 1][1], t>>
                /\ pc' = "for_CMU"
                /\ UNCHANGED <<err, it, Rp>>
    /\ UNCHANGED <<cfg, tmm, units, runs, n_aqueous,
                   theta_list_cmu, d_list_cmu, n_list_cmu,
                   theta_list_ibbr, d_list_ibbr, n_list_ibbr,
                   x_cmu, x_cmu_min, x_cmu_max, x_cmu_num,
                   x_ibbr, x_ibbr_min, x_ibbr_max, x_ibbr_num, ibbr_csv,
                   plots, calls, start, completed>>
-----------------------------------------------------------------------------
Next ==
    \/ ParamsCell
    \/ RunCell
    \/ Interrupt
    \/ plot_IBBR
    \/ sample_IBBR_call
    \/ sample_IBBR_for
    \/ sample_IBBR_return
    \/ sample_IBBR_scan
    \/ sample_IBBR_emit
    \/ plot_CMU
    \/ sample_CMU_call
    \/ sample_CMU_for
    \/ sample_CMU_return
    \/ sample_CMU_scan
    \/ sample_CMU_emit

Spec == Init /\ [][Next]_vars

\* The kernel goes on executing the statements of the cell it is running; the
\* user's acts (executing a cell, interrupting) are under no obligation.
Step ==
    \/ plot_IBBR
    \/ sample_IBBR_call
    \/ sample_IBBR_for
    \/ sample_IBBR_return
    \/ sample_IBBR_scan
    \/ sample_IBBR_emit
    \/ plot_CMU
    \/ sample_CMU_call
    \/ sample_CMU_for
    \/ sample_CMU_return
    \/ sample_CMU_scan
    \/ sample_CMU_emit

\* sessions whose sample counts are finite (not negative), whose layer lists
\* are as long as the thickness lists and whose reflectance function returns
FairConfigs ==
    {c \in Configs :
        c.stack = "ok" /\ c.num_ibbr >= 0 /\ c.num_cmu = c.num_ibbr}

FairInit ==
    /\ Init
    /\ cfg \in FairConfigs
    /\ tmm # "C"

FairSpec == FairInit /\ [][Next]_vars /\ WF_vars(Step)

-----------------------------------------------------------------------------
(* The loop of sample_IBBR with its turns run side by side                  *)
(*                                                                          *)
(* One unit per value of the sweep executes the body of the for statement   *)
(* of lines 133-142 as the source has it: the loop target n_list_ibbr[x_ibbr] *)
(* is the global list, every coh_tmm call reads that list, and the row is   *)
(* built from it.  The steps of different units interleave in any order.    *)
(* The rows are collected by sample index and written in sweep order when   *)
(* every unit has finished.                                                 *)

\* sessions whose literals are without defect, on a grid of two angles
ConcConfigs ==
    {c \in Configs :
        /\ c.stack = "ok"
        /\ c.num_ibbr >= 1 /\ c.num_cmu = c.num_ibbr
        /\ c.grid_ibbr = [lo |-> 60000, hi |-> 90000, num |-> 2]
        /\ c.grid_cmu = c.grid_ibbr}

ConcInit ==
    /\ Init
    /\ cfg \in ConcConfigs

NewUnit == [pc |-> "store", Rp |-> <<>>, calls |-> <<>>, row |-> <<>>]

ConcFrame ==
    UNCHANGED <<cfg, tmm, runs, n_aqueous,
                theta_list_ibbr, d_list_ibbr,
                theta_list_cmu, d_list_cmu, n_list_cmu,
                x_ibbr, x_ibbr_min, x_ibbr_max, x_ibbr_num,
                x_cmu, x_cmu_min, x_cmu_max, x_cmu_num, cmu_csv,
                Rp, plots, stdout, calls, start, completed>>

\* sample_IBBR(), line 133: linspace evaluated once, one unit per value
par_IBBR_call ==
    /\ pc = "sample_IBBR"
    /\ x_ibbr_num >= 0
    /\ it' = [arr |-> linspace(x_ibbr_min, x_ibbr_max, x_ibbr_num), i |-> 0]
    /\ units' = [i \in 1..Len(it'.arr) |-> NewUnit]
    /\ pc' = "par_IBBR"
    /\ UNCHANGED <<err, n_list_ibbr, ibbr_csv>>
    /\ ConcFrame

\* line 133: the value of unit i stored into the loop target
unit_store(i) ==
    /\ pc = "par_IBBR"
    /\ units[i].pc = "store"
    /\ n_list_ibbr' = substitute(n_list_ibbr, x_ibbr, it.arr[i])
    /\ units' = [units EXCEPT ![i].pc = "scan"]
    /\ UNCHANGED <<pc, err, it, ibbr_csv>>
    /\ ConcFrame

\* lines 135-136: one turn of the loop over theta_list_ibbr in unit i
unit_scan(i) ==
    /\ pc = "par_IBBR"
    /\ units[i].pc = "scan"
    /\ Len(units[i].Rp) < Len(theta_list_ibbr)
    /\ LET theta == theta_list_ibbr[Len(units[i].Rp) + 1]
           res   == coh_tmm("p", n_list_ibbr, d_list_ibbr, theta, lam_vac_ibbr)
           c     == Call("sample_IBBR", "p", n_list_ibbr, d_list_ibbr, theta,
                         lam_vac_ibbr)
       IN  IF res.raises
           THEN /\ units' = [units EXCEPT ![i].calls = Append(@, c)]
                /\ pc' = "idle"
                /\ err' = "ValueError"
           ELSE /\ units' = [units EXCEPT ![i].calls = Append(@, c),
                                          ![i].Rp = Append(@, res.R)]
                /\ UNCHANGED <<pc, err>>
    /\ UNCHANGED <<it, n_list_ibbr, ibbr_csv>>
    /\ ConcFrame

\* lines 137-140: the row of unit i, built from the list as it is now
unit_emit(i) ==
    /\ pc = "par_IBBR"
    /\ units[i].pc = "scan"
    /\ Len(units[i].Rp) >= Len(theta_list_ibbr)
    /\ LET mini    == min(units[i].Rp)
           rpindex == index(units[i].Rp, mini)
           t       == tindex(theta_list_ibbr, rpindex)
       IN  units' = [units EXCEPT ![i].row = row(n_list_ibbr, x_ibbr, t),
                                  ![i].pc = "done"]
    /\ UNCHANGED <<pc, err, it, n_list_ibbr, ibbr_csv>>
    /\ ConcFrame

\* every unit has finished: the rows written in sweep order
par_IBBR_return ==
    /\ pc = "par_IBBR"
    /\ \A i \in DOMAIN units : units[i].pc = "done"
    /\ ibbr_csv' = [ibbr_csv EXCEPT !.rows = [i \in DOMAIN units |-> units[i].row]]
    /\ pc' = "par_done"
    /\ UNCHANGED <<err, it, n_list_ibbr, units>>
    /\ ConcFrame

ConcNext ==
    \/ RunCell
    \/ plot_IBBR
    \/ par_IBBR_call
    \/ \E i \in DOMAIN units : unit_store(i)
    \/ \E i \in DOMAIN units : unit_scan(i)
    \/ \E i \in DOMAIN units : unit_emit(i)
    \/ par_IBBR_return

ConcSpec == ConcInit /\ [][ConcNext]_vars

-----------------------------------------------------------------------------
(* Vocabulary of the properties *)

\* the coh_tmm calls a sample function has made in this execution of the run cell
CallsOf(fn) == SelectSeq(calls, LAMBDA c : c.fn = fn)

Ascending(list) == \A i \in 1..(Len(list) - 1) : list[i] <= list[i + 1]

\* refractive-index and thickness sequences of different lengths
StackMismatch(n_list, d_list) == Len(n_list) # Len(d_list)

\* a window with an angle outside the open interval (0, 90) degrees, or with
\* its min angle at or above its max angle
InvalidWindow(g) == g.lo <= 0 \/ g.hi >= 90000 \/ g.lo >= g.hi

\* the reflectance function returns for every stack whose lists have one size
TotalModel == tmm # "C"

\* the logged coh_tmm call raised
Raised(c) ==
    \/ Len(c.n_list) # Len(c.d_list)
    \/ tmm = "C" /\ coh_tmm(c.pol, c.n_list, c.d_list, c.th_0, c.lam_vac).raises

\* the run cell has been executed and did not end with the named exception
EndedOtherThan(e) == pc = "idle" /\ runs > 0 /\ err \notin {"none", "KeyboardInterrupt", e}

-----------------------------------------------------------------------------
(* C1: a call of sample_IBBR / sample_CMU that returns, for a sweep with   *)
(* count >= 1, has written exactly count rows; the first row is at min and, *)
(* for count > 1, the last at max; and when min <= max the parameter values *)
(* of consecutive rows never decrease.                                      *)
SweepRows(rows, lo, hi, num) ==
    /\ Len(rows) = num
    /\ rows[1][1] = lo
    /\ num > 1 => rows[num][1] = hi
    /\ lo <= hi => \A i \in 1..(num - 1) : rows[i][1] <= rows[i + 1][1]

C1_CountAndOrder ==
    /\ \A r \in DOMAIN completed.ibbr :
           x_ibbr_num >= 1 =>
               SweepRows(completed.ibbr[r], x_ibbr_min, x_ibbr_max, x_ibbr_num)
    /\ \A r \in DOMAIN completed.cmu :
           x_cmu_num >= 1 =>
               SweepRows(completed.cmu[r], x_cmu_min, x_cmu_max, x_cmu_num)

\* both functions have returned from a sweep of MaxNum strictly increasing values
C1_Witness ==
    /\ completed.ibbr # <<>> /\ completed.cmu # <<>>
    /\ x_ibbr_num = MaxNum /\ x_cmu_num = MaxNum
    /\ completed.ibbr[1][1][1] < completed.ibbr[1][2][1]
    /\ completed.cmu[1][1][1] < completed.cmu[1][2][1]

-----------------------------------------------------------------------------
(* C2: the angle written for a sample is the grid angle, in degrees, at the *)
(* first index whose reflectance is the minimum of the whole scan; on an    *)
(* ascending grid it lies within the grid's first and last angle and is the *)
(* smallest of the angles that tie for the minimum.                         *)
FirstMinimum(R, thetas, t) ==
    /\ \E i \in DOMAIN R :
          /\ \A j \in DOMAIN R : R[i] <= R[j]
          /\ \A j \in 1..(i - 1) : R[j] > R[i]
          /\ t = FDiv(thetas[i], DEGREE)
    /\ Ascending(thetas) =>
          /\ FDiv(thetas[1], DEGREE) <= t
          /\ t <= FDiv(thetas[Len(thetas)], DEGREE)
          /\ \A j \in DOMAIN R :
                 (\A k \in DOMAIN R : R[j] <= R[k]) => t <= FDiv(thetas[j], DEGREE)

C2_FirstMinimumAngle ==
    /\ (pc = "for_IBBR" /\ it.i > 0) =>
           FirstMinimum(Rp, theta_list_ibbr, ibbr_csv.rows[Len(ibbr_csv.rows)][2])
    /\ (pc = "for_CMU" /\ it.i > 0) =>
           FirstMinimum(Rp, theta_list_cmu, cmu_csv.rows[Len(cmu_csv.rows)][2])

\* a row has just been written for a scan, over an ascending grid, whose
\* minimum is first reached after the first angle and is reached twice
C2_Witness ==
    /\ pc \in {"for_IBBR", "for_CMU"}
    /\ it.i > 0
    /\ Ascending(IF pc = "for_IBBR" THEN theta_list_ibbr ELSE theta_list_cmu)
    /\ Len(Rp) = 3
    /\ Rp[1] > Rp[2]
    /\ Rp[2] = Rp[3]

-----------------------------------------------------------------------------
(* C3: every coh_tmm call made by a sample function passes the layer list   *)
(* of the start of the run with the value of the sample being evaluated at  *)
(* the target index and nothing else changed, and the thickness list,       *)
(* wavelength and polarization of the instrument.                           *)
SampleCalls(cs, base, x, sweep, thetas, d_list, lam_vac) ==
    \A j \in DOMAIN cs :
        LET k == ((j - 1) \div Len(thetas)) + 1
        IN  /\ cs[j].n_list[x + 1] = <<sweep[k], 0>>
            /\ Len(cs[j].n_list) = Len(base)
            /\ \A l \in DOMAIN base : l # x + 1 => cs[j].n_list[l] = base[l]
            /\ cs[j].d_list = d_list
            /\ cs[j].lam_vac = lam_vac
            /\ cs[j].pol = "p"
            /\ cs[j].th_0 = thetas[((j - 1) % Len(thetas)) + 1]

C3_OnlyTargetLayerSubstituted ==
    /\ SampleCalls(CallsOf("sample_IBBR"), start.ibbr, x_ibbr,
                   linspace(x_ibbr_min, x_ibbr_max, x_ibbr_num),
                   theta_list(cfg.grid_ibbr), d_list_ibbr_literal, lam_vac_ibbr)
    /\ SampleCalls(CallsOf("sample_CMU"), start.cmu, x_cmu,
                   linspace(x_cmu_min, x_cmu_max, x_cmu_num),
                   theta_list(cfg.grid_cmu), d_list_cmu_literal, lam_vac_cmu)

\* sample_CMU is scanning its second sample or a later one, whose value is
\* not the one the layer list had at the target index when the run started
C3_Witness ==
    /\ pc = "scan_CMU"
    /\ it.i >= 2
    /\ Len(Rp) > 0
    /\ calls[Len(calls)].n_list[x_cmu + 1] # start.cmu[x_cmu + 1]
    /\ Len(CallsOf("sample_IBBR")) > Len(theta_list_ibbr)

-----------------------------------------------------------------------------
(* C4: when the run cell ends, normally or by an interrupt, on a            *)
(* configuration without defect, both layer lists hold in every entry, the  *)
(* target entry included, what they held when the run cell started.         *)
C4_BaseStackRestored ==
    [][(/\ pc # "idle" /\ pc' = "idle"
        /\ cfg.stack = "ok"
        /\ x_ibbr_num >= 1 /\ x_cmu_num >= 1
        /\ ~InvalidWindow(cfg.grid_ibbr) /\ ~InvalidWindow(cfg.grid_cmu)) =>
           (n_list_ibbr' = start.ibbr /\ n_list_cmu' = start.cmu)]_vars

-----------------------------------------------------------------------------
(* C5: every call of sample_IBBR that returns writes the same rows as every *)
(* other call of it that returned in the session, whatever the executions   *)
(* between them left in the layer list; the same for sample_CMU.            *)
C5_Idempotent ==
    /\ \A i, j \in DOMAIN completed.ibbr : completed.ibbr[i] = completed.ibbr[j]
    /\ \A i, j \in DOMAIN completed.cmu : completed.cmu[i] = completed.cmu[j]

\* both functions have returned twice from sweeps of several samples, the
\* second time from layer lists that an earlier execution had changed
C5_Witness ==
    /\ Len(completed.ibbr) = 2
    /\ Len(completed.cmu) = 2
    /\ Len(completed.ibbr[2]) >= 2
    /\ Len(completed.cmu[2]) >= 2
    /\ start.ibbr # n_list_ibbr_literal(cfg, 1335)
    /\ start.cmu # n_list_cmu_literal(cfg, 1335)

-----------------------------------------------------------------------------
(* C6: with a sample count of 1 a sample function that returns has written  *)
(* exactly one row, at min whatever max is, after exactly one scan of the   *)
(* grid; and with both counts 1, the layer lists as long as the thickness   *)
(* lists and a reflectance function that returns, no execution of the run   *)
(* cell ends with an exception other than an interrupt.                     *)
OneRecord(rows, lo, cs, thetas) ==
    /\ Len(rows) = 1
    /\ rows[1][1] = lo
    /\ Len(cs) = Len(thetas)

C6_SingleSample ==
    /\ (pc = "plot_CMU" /\ x_ibbr_num = 1) =>
           OneRecord(ibbr_csv.rows, x_ibbr_min, CallsOf("sample_IBBR"),
                     theta_list_ibbr)
    /\ (pc = "idle" /\ runs > 0 /\ err = "none" /\ x_cmu_num = 1) =>
           OneRecord(cmu_csv.rows, x_cmu_min, CallsOf("sample_CMU"),
                     theta_list(cfg.grid_cmu))
    /\ (x_ibbr_num = 1 /\ x_cmu_num = 1 /\ cfg.stack = "ok" /\ TotalModel) =>
           err \in {"none", "KeyboardInterrupt"}

\* the run cell has ended normally with both counts 1 and max different from min
C6_Witness ==
    /\ pc = "idle" /\ runs > 0 /\ err = "none"
    /\ x_ibbr_num = 1 /\ x_cmu_num = 1
    /\ x_ibbr_max # x_ibbr_min
    /\ Len(cmu_csv.rows) = 1

-----------------------------------------------------------------------------------------------------------------------------------------------------
(* C7: when a layer list and its thickness list differ in length, in a      *)
(* configuration with no other defect (TotalModel: the reflectance function *)
(* returns), the sample function makes no coh_tmm                           *)
(* call and writes no row, and the execution ends with InvalidStackError.   *)
C7_InvalidStackFailsFast ==
    /\ (/\ runs > 0 /\ TotalModel
        /\ StackMismatch(n_list_ibbr, d_list_ibbr)
        /\ x_ibbr_num >= 1
        /\ ~InvalidWindow(cfg.grid_ibbr)) =>
           /\ CallsOf("sample_IBBR") = <<>>
           /\ ibbr_csv.rows = <<>>
           /\ ~EndedOtherThan("InvalidStackError")
    /\ (/\ runs > 0 /\ TotalModel
        /\ StackMismatch(n_list_cmu, d_list_cmu)
        /\ x_ibbr_num >= 1 /\ x_cmu_num >= 1
        /\ ~InvalidWindow(cfg.grid_ibbr) /\ ~InvalidWindow(cfg.grid_cmu)) =>
           /\ CallsOf("sample_CMU") = <<>>
           /\ cmu_csv.rows = <<>>
           /\ ~EndedOtherThan("InvalidStackError")

-----------------------------------------------------------------------------
(* C8: when a sample count is below 1, in a configuration with no other     *)
(* defect, the sample function does not return normally, and the execution  *)
(* ends with InvalidSweepError.                                             *)
C8_InvalidSweepFails ==
    /\ (/\ runs > 0 /\ TotalModel
        /\ x_ibbr_num < 1
        /\ cfg.stack = "ok"
        /\ ~InvalidWindow(cfg.grid_ibbr)) =>
           /\ completed.ibbr = <<>>
           /\ ~EndedOtherThan("InvalidSweepError")
    /\ (/\ runs > 0 /\ TotalModel
        /\ x_cmu_num < 1 /\ x_ibbr_num >= 1
        /\ cfg.stack = "ok"
        /\ ~InvalidWindow(cfg.grid_ibbr) /\ ~InvalidWindow(cfg.grid_cmu)) =>
           /\ completed.cmu = <<>>
           /\ ~EndedOtherThan("InvalidSweepError")

-----------------------------------------------------------------------------
(* C9: when a grid has an angle outside the open interval (0, 90) degrees   *)
(* or its min angle is not below its max angle, in a configuration with no  *)
(* other defect, the sample function makes no coh_tmm call, writes no row   *)
(* and does not return normally, and the execution ends with                *)
(* InvalidAngleRangeError.                                                  *)
C9_InvalidAngleRangeFails ==
    /\ (/\ runs > 0 /\ TotalModel
        /\ InvalidWindow(cfg.grid_ibbr)
        /\ cfg.stack = "ok"
        /\ x_ibbr_num >= 1) =>
           /\ CallsOf("sample_IBBR") = <<>>
           /\ ibbr_csv.rows = <<>>
           /\ completed.ibbr = <<>>
           /\ ~EndedOtherThan("InvalidAngleRangeError")
    /\ (/\ runs > 0 /\ TotalModel
        /\ InvalidWindow(cfg.grid_cmu) /\ ~InvalidWindow(cfg.grid_ibbr)
        /\ cfg.stack = "ok"
        /\ x_ibbr_num >= 1 /\ x_cmu_num >= 1) =>
           /\ CallsOf("sample_CMU") = <<>>
           /\ cmu_csv.rows = <<>>
           /\ completed.cmu = <<>>
           /\ ~EndedOtherThan("InvalidAngleRangeError")

-----
(* C10: with a configuration that fails validation (lists of different      *)
(* lengths, a sample count below 1, an invalid angle range) no step creates *)
(* or changes the instrument's output file.                                 *)
InvalidIBBR ==
    \/ StackMismatch(n_list_ibbr_literal(cfg, 1335), d_list_ibbr_literal)
    \/ cfg.num_ibbr < 1
    \/ InvalidWindow(cfg.grid_ibbr)

InvalidCMU ==
    \/ StackMismatch(n_list_cmu_literal(cfg, 1335), d_list_cmu_literal)
    \/ cfg.num_cmu < 1
    \/ InvalidWindow(cfg.grid_cmu)

C10_NoOutputOnInvalidConfig ==
    [][/\ InvalidIBBR => ibbr_csv' = ibbr_csv
       /\ InvalidCMU => cmu_csv' = cmu_csv]_vars

-----------------------------------------------------------------------------
(* C11: a coh_tmm call that raises is the last call of the execution: the   *)
(* run cell ends there with the exception, the function that made the call  *)
(* does not return, the file holds one row for each sample scanned in full  *)
(* before it, each as it was written (value of the sample, angle of the     *)
(* first minimum of that sample's scan), and no row for the failing sample  *)
(* or a later one.                                                          *)
ScanOf(cs, thetas, i) ==
    [j \in 1..Len(thetas) |->
        LET c == cs[(i - 1) * Len(thetas) + j]
        IN  coh_tmm(c.pol, c.n_list, c.d_list, c.th_0, c.lam_vac).R]

FailedScan(cs, rows, thetas, sweep) ==
    LET k == (Len(cs) - 1) \div Len(thetas)
    IN  /\ Len(rows) = k
        /\ \A i \in 1..k :
               /\ Len(rows[i]) = 2
               /\ rows[i][1] = sweep[i]
               /\ FirstMinimum(ScanOf(cs, thetas, i), thetas, rows[i][2])

C11_ModelErrorPropagates ==
    \A j \in DOMAIN calls :
        Raised(calls[j]) =>
            /\ j = Len(calls)
            /\ pc = "idle"
            /\ err = "ValueError"
            /\ calls[j].fn = "sample_IBBR" =>
                   /\ FailedScan(CallsOf("sample_IBBR"), ibbr_csv.rows,
                                 theta_list(cfg.grid_ibbr),
                                 linspace(x_ibbr_min, x_ibbr_max, x_ibbr_num))
                   /\ cmu_csv.rows = <<>>
                   /\ Len(completed.ibbr) < runs
            /\ calls[j].fn = "sample_CMU" =>
                   /\ FailedScan(CallsOf("sample_CMU"), cmu_csv.rows,
                                 theta_list(cfg.grid_cmu),
                                 linspace(x_cmu_min, x_cmu_max, x_cmu_num))
                   /\ Len(completed.cmu) < runs
            /\ calls[j].fn \in {"plot_IBBR", "plot_CMU"} => cmu_csv.rows = <<>>

\* the reflectance function has rejected the arguments of a call of
\* sample_IBBR for the second sample or a later one, after the first angle
C11_Witness ==
    /\ pc = "idle" /\ err = "ValueError"
    /\ calls # <<>>
    /\ Raised(calls[Len(calls)])
    /\ calls[Len(calls)].fn = "sample_IBBR"
    /\ cfg.stack = "ok"
    /\ Len(ibbr_csv.rows) >= 1
    /\ (Len(CallsOf("sample_IBBR")) - 1) % Len(theta_list(cfg.grid_ibbr)) >= 1

-----------------------------------------------------------------------------
(* C12: a file changes only in two ways: the run cell opens it in mode "w"  *)
(* (created, empty) as it starts, and a sample function of the same         *)
(* instrument writes one row at its end for the sample it has just scanned; *)
(* that row has two columns, the value the layer list holds at the target   *)
(* index for the sample and the angle found for the scan, and is the pair   *)
(* printed for the sample.  No other step, and no step of the other         *)
(* instrument, changes the file.                                            *)
Opened(file) == file = [exists |-> TRUE, rows |-> <<>>]

OneRowWritten(before, after, value, R, thetas, out_before, out_after) ==
    /\ after.exists = before.exists
    /\ Len(after.rows) = Len(before.rows) + 1
    /\ SubSeq(after.rows, 1, Len(before.rows)) = before.rows
    /\ LET r == after.rows[Len(after.rows)]
       IN  /\ Len(r) = 2
           /\ r[1] = value
           /\ FirstMinimum(R, thetas, r[2])
           /\ out_after = out_before \o r

C12_FileOpenedOnceRowPerRecord ==
    [][/\ ibbr_csv' # ibbr_csv =>
            \/ pc = "idle" /\ pc' = "plot_IBBR" /\ Opened(ibbr_csv')
            \/ /\ pc = "scan_IBBR" /\ pc' = "for_IBBR"
               /\ OneRowWritten(ibbr_csv, ibbr_csv', it.arr[it.i], Rp,
                                theta_list_ibbr, stdout, stdout')
       /\ cmu_csv' # cmu_csv =>
            \/ pc = "idle" /\ pc' = "plot_IBBR" /\ Opened(cmu_csv')
            \/ /\ pc = "scan_CMU" /\ pc' = "for_CMU"
               /\ OneRowWritten(cmu_csv, cmu_csv', it.arr[it.i], Rp,
                                theta_list_cmu, stdout, stdout')
       /\ (stdout' # stdout /\ pc # "idle") =>
            \/ Len(ibbr_csv'.rows) = Len(ibbr_csv.rows) + 1 /\ cmu_csv' = cmu_csv
            \/ Len(cmu_csv'.rows) = Len(cmu_csv.rows) + 1 /\ ibbr_csv' = ibbr_csv
      ]_vars

\* both sample functions have returned, each after writing two or more rows
\* with different values
C12_Witness ==
    /\ pc = "idle" /\ runs > 0 /\ err = "none"
    /\ Len(ibbr_csv.rows) >= 2 /\ Len(cmu_csv.rows) >= 2
    /\ ibbr_csv.rows[1] # ibbr_csv.rows[2]
    /\ cmu_csv.rows[1] # cmu_csv.rows[2]
    /\ Len(stdout) = 2 * (Len(ibbr_csv.rows) + Len(cmu_csv.rows))

-----------------------------------------------------------------------------
(* C13: in every state, an interrupted execution included, the rows of a    *)
(* file are the rows of the first k samples of the sweep, in sweep order    *)
(* and each whole (value of the sample, angle of the first minimum of the   *)
(* sample's full scan), for a k from 0 to the count; k is the number of     *)
(* scans completed, and no call is made for a sample before the row of the  *)
(* sample before it is written.                                             *)
ResultOf(base, x, v, d_list, thetas, lam_vac) ==
    LET R == curve(substitute(base, x, v), d_list, thetas, lam_vac)
    IN  <<v, tindex(thetas, index(R, min(R)))>>

PrefixOfResults(rows, cs, base, x, sweep, d_list, thetas, lam_vac) ==
    /\ Len(rows) <= Len(sweep)
    /\ \A i \in DOMAIN rows :
           rows[i] = ResultOf(base, x, sweep[i], d_list, thetas, lam_vac)
    /\ Len(rows) * Len(thetas) <= Len(cs)
    /\ Len(cs) <= (Len(rows) + 1) * Len(thetas)

C13_EmittedRowsArePrefix ==
    /\ PrefixOfResults(ibbr_csv.rows, CallsOf("sample_IBBR"), start.ibbr, x_ibbr,
                       linspace(x_ibbr_min, x_ibbr_max, x_ibbr_num),
                       d_list_ibbr_literal, theta_list(cfg.grid_ibbr),
                       lam_vac_ibbr)
    /\ PrefixOfResults(cmu_csv.rows, CallsOf("sample_CMU"), start.cmu, x_cmu,
                       linspace(x_cmu_min, x_cmu_max, x_cmu_num),
                       d_list_cmu_literal, theta_list(cfg.grid_cmu),
                       lam_vac_cmu)

\* sample_IBBR has been interrupted in the middle of the scan of its second
\* sample or a later one, with the rows of the samples before it written
C13_Witness ==
    /\ pc = "idle" /\ err = "KeyboardInterrupt"
    /\ Len(ibbr_csv.rows) >= 1
    /\ Len(ibbr_csv.rows) < x_ibbr_num
    /\ ibbr_csv.rows[1][1] # x_ibbr_max
    /\ Len(CallsOf("sample_IBBR")) % Len(theta_list(cfg.grid_ibbr)) # 0
    /\ cmu_csv.rows = <<>>

-----------------------------------------------------------------------------
(* C14: when the turns of the sweep loop run side by side, every coh_tmm    *)
(* call of the unit of a sample passes a layer list holding that sample's   *)
(* value at the target index, and the row of a finished unit is the row the *)
(* sequential loop writes for the sample.                                   *)
C14_ConcurrentSamplesIsolated ==
    \A i \in DOMAIN units :
        /\ \A j \in DOMAIN units[i].calls :
               units[i].calls[j].n_list[x_ibbr + 1] = <<it.arr[i], 0>>
        /\ units[i].pc = "done" =>
               units[i].row = ResultOf(start.ibbr, x_ibbr, it.arr[i],
                                       d_list_ibbr, theta_list_ibbr,
                                       lam_vac_ibbr)

-----------------------------------------------------------------------------
(* C15: the two layer lists a plot function has drawn are, entry by entry,  *)
(* the lists the sample function of the same instrument passes to coh_tmm   *)
(* for its first sample and, once it has returned from a sweep of two or    *)
(* more samples, for its last sample (sessions without defect).            *)
PlotOf(fn) == SelectSeq(plots, LAMBDA p : p.fn = fn)

PlotMatchesLocator(ps, cs, returned, num) ==
    (ps # <<>> /\ cs # <<>>) =>
        /\ ps[1].n_list_min = cs[1].n_list
        /\ (returned /\ num >= 2) => ps[1].n_list_max = cs[Len(cs)].n_list

C15_PlotStacksAreLocatorStacks ==
    (~InvalidIBBR /\ ~InvalidCMU /\ TotalModel) =>
        /\ PlotMatchesLocator(PlotOf("plot_IBBR"), CallsOf("sample_IBBR"),
                              pc \notin {"for_IBBR", "scan_IBBR"}, x_ibbr_num)
        /\ PlotMatchesLocator(PlotOf("plot_CMU"), CallsOf("sample_CMU"),
                              pc \notin {"for_CMU", "scan_CMU"}, x_cmu_num)

-----------------------------------------------------------------------------
(* C16: sample_IBBR and sample_CMU are one function of a configuration      *)
(* (layer list, thickness list, grid, target index, min, max, count,        *)
(* wavelength): a call of either that returns has made the calls and        *)
(* written the rows that function gives for the instrument's own            *)
(* configuration, so on equal configurations the two make the same calls    *)
(* and write the same rows; and while one runs, the list, grid, sweep       *)
(* variables and file of the other instrument stay as they were.            *)
LocatorCalls(fn, base, d_list, thetas, x, sweep, lam_vac) ==
    [k \in 1..(Len(sweep) * Len(thetas)) |->
        Call(fn, "p",
             substitute(base, x, sweep[((k - 1) \div Len(thetas)) + 1]),
             d_list, thetas[((k - 1) % Len(thetas)) + 1], lam_vac)]

LocatorRows(base, d_list, thetas, x, sweep, lam_vac) ==
    [i \in 1..Len(sweep) |-> ResultOf(base, x, sweep[i], d_list, thetas, lam_vac)]

\* sample_IBBR has returned in this execution of the run cell
ReturnedIBBR == pc \in {"plot_CMU", "sample_CMU", "for_CMU", "scan_CMU"}

\* sample_CMU has returned and the run cell has ended
ReturnedCMU == pc = "idle" /\ runs > 0 /\ err = "none"

C16_OneLocator ==
    /\ (ReturnedIBBR \/ ReturnedCMU) =>
           LET sweep == linspace(x_ibbr_min, x_ibbr_max, x_ibbr_num)
           IN  /\ CallsOf("sample_IBBR") =
                      LocatorCalls("sample_IBBR", start.ibbr, d_list_ibbr_literal,
                                   theta_list(cfg.grid_ibbr), x_ibbr, sweep,
                                   lam_vac_ibbr)
               /\ ibbr_csv.rows =
                      LocatorRows(start.ibbr, d_list_ibbr_literal,
                                  theta_list(cfg.grid_ibbr), x_ibbr, sweep,
                                  lam_vac_ibbr)
    /\ ReturnedCMU =>
           LET sweep == linspace(x_cmu_min, x_cmu_max, x_cmu_num)
           IN  /\ CallsOf("sample_CMU") =
                      LocatorCalls("sample_CMU", start.cmu, d_list_cmu_literal,
                                   theta_list(cfg.grid_cmu), x_cmu, sweep,
                                   lam_vac_cmu)
               /\ cmu_csv.rows =
                      LocatorRows(start.cmu, d_list_cmu_literal,
                                  theta_list(cfg.grid_cmu), x_cmu, sweep,
                                  lam_vac_cmu)
    /\ pc \in {"sample_IBBR", "for_IBBR", "scan_IBBR", "plot_CMU"} =>
           /\ n_list_cmu = start.cmu
           /\ theta_list_cmu = theta_list(cfg.grid_cmu)
           /\ <<x_cmu, x_cmu_min, x_cmu_max, x_cmu_num>>
                  = <<5, cfg.range[1], cfg.range[2], cfg.num_cmu>>
           /\ cmu_csv = [exists |-> TRUE, rows |-> <<>>]
           /\ CallsOf("sample_CMU") = <<>>
    /\ pc \in {"sample_CMU", "for_CMU", "scan_CMU"} =>
           /\ \A l \in DOMAIN n_list_ibbr :
                  l # x_ibbr + 1 => n_list_ibbr[l] = start.ibbr[l]
           /\ x_ibbr_num >= 1 => n_list_ibbr[x_ibbr + 1] =
                  <<ibbr_csv.rows[Len(ibbr_csv.rows)][1], 0>>
           /\ theta_list_ibbr = theta_list(cfg.grid_ibbr)
           /\ <<x_ibbr, x_ibbr_min, x_ibbr_max, x_ibbr_num>>
                  = <<5, cfg.range[1], cfg.range[2], cfg.num_ibbr>>
           /\ ibbr_csv.rows = completed.ibbr[Len(completed.ibbr)]

\* both functions have returned from sweeps of the same values, count and
\* grid, each of MaxNum samples
C16_Witness ==
    /\ ReturnedCMU
    /\ x_ibbr_num = MaxNum /\ x_cmu_num = MaxNum
    /\ x_ibbr_min < x_ibbr_max
    /\ cfg.grid_ibbr = cfg.grid_cmu
    /\ Len(cmu_csv.rows) = MaxNum /\ Len(ibbr_csv.rows) = MaxNum
    /\ \A i \in 1..MaxNum : cmu_csv.rows[i][1] = ibbr_csv.rows[i][1]

-----------------------------------------------------------------------------
(* C17: an execution of the run cell with finite sample counts and grids, a *)
(* reflectance function that returns and layer lists as long as the         *)
(* thickness lists, ends; unless it is interrupted it                       *)
(* ends normally, each sample function having called coh_tmm exactly once   *)
(* for each pair of a sample and a grid angle, samples in sweep order and   *)
(* angles in grid order: count times the size of the grid calls in all.     *)
OncePerPair(cs, x, sweep, thetas, num) ==
    /\ Len(cs) = num * Len(thetas)
    /\ \A k \in DOMAIN cs :
           /\ cs[k].n_list[x + 1] = <<sweep[((k - 1) \div Len(thetas)) + 1], 0>>
           /\ cs[k].th_0 = thetas[((k - 1) % Len(thetas)) + 1]

AllCallsMade ==
    /\ OncePerPair(CallsOf("sample_IBBR"), x_ibbr,
                   linspace(x_ibbr_min, x_ibbr_max, x_ibbr_num),
                   theta_list(cfg.grid_ibbr), x_ibbr_num)
    /\ OncePerPair(CallsOf("sample_CMU"), x_cmu,
                   linspace(x_cmu_min, x_cmu_max, x_cmu_num),
                   theta_list(cfg.grid_cmu), x_cmu_num)

C17_RunTerminatesAfterAllCalls ==
    (pc # "idle" /\ cfg \in FairConfigs /\ TotalModel)
        ~> (pc = "idle" /\ (err = "KeyboardInterrupt" \/ (err = "none" /\ AllCallsMade)))

\* the run cell has ended normally after MaxNum scans of MaxAngles angles by
\* each sample function
C17_Witness ==
    /\ pc = "idle" /\ runs > 0 /\ err = "none"
    /\ x_ibbr_num = MaxNum /\ x_cmu_num = MaxNum
    /\ Len(CallsOf("sample_IBBR")) = MaxNum * MaxAngles
    /\ Len(CallsOf("sample_CMU")) = MaxNum * MaxAngles

====
